---- MODULE Spec2Model ----
(***************************************************************************)
(* harmonica/gravity_corrections.py: the five gravity corrections          *)
(* (Bouguer, atmospheric, spherical cap, free air, Eotvos).                *)
(*                                                                         *)
(* The model has three layers.                                             *)
(*   1. Numbers.  Python floats are modelled as exact decimals (sign,      *)
(*      decimal digits, power of ten) times symbolic powers of np.pi and   *)
(*      GRAVITATIONAL_CONST, plus NaN.  Rounding is not modelled: every    *)
(*      formula below is compared with an expression of the same literals. *)
(*   2. Statements.  Each def is the sequence of its logical lines, as the *)
(*      Python tokenizer delivers them, with the tokens that open and      *)
(*      close the line.  Load compiles them the way Python does; a call    *)
(*      executes them one after the other over a heap of array objects.    *)
(*   3. The state machine: a text is handed to the interpreter (the whole  *)
(*      file, or the lines of one def by themselves), it is loaded, and    *)
(*      the corrections are called on the caller's inputs.                 *)
(***************************************************************************)
EXTENDS Integers, Sequences, FiniteSets, TLC

VARIABLES
    unit,                \* the text handed to the interpreter
    pc,                  \* "start", "loaded" or "failed"
    namespace,           \* the names the loaded text has bound
    loadError,           \* the exception Load raised (line 0: none)
    inputs,              \* the caller's objects: topography, latitude, ...
    GRAVITATIONAL_CONST, \* harmonica.constants.GRAVITATIONAL_CONST
    last,                \* the last call: function, densities, outcome
    frame                \* the local variables of the last call at its end

vars == <<unit, pc, namespace, loadError, inputs, GRAVITATIONAL_CONST, last, frame>>

\* Longest topography array of the model.
MaxLen == 2

(***************************************************************************)
(* Numbers                                                                 *)
(***************************************************************************)

\* A float: (-1)^neg * dig * 10^exp * pi^pi * G^G, dig little-endian decimal
\* digits without leading or trailing zeros; or NaN.
Zero == [nan |-> FALSE, neg |-> FALSE, dig |-> <<>>, exp |-> 0, pi |-> 0, G |-> 0]

NaN == [nan |-> TRUE, neg |-> FALSE, dig |-> <<>>, exp |-> 0, pi |-> 0, G |-> 0]

RECURSIVE StripHigh(_)
StripHigh(d) ==
    IF d = <<>> THEN d
    ELSE IF d[Len(d)] = 0 THEN StripHigh(SubSeq(d, 1, Len(d) - 1))
    ELSE d

RECURSIVE LowZeros(_)
LowZeros(d) == IF d = <<>> \/ Head(d) # 0 THEN 0 ELSE 1 + LowZeros(Tail(d))

Canon(neg, dig, exp, p, g) ==
    LET h == StripHigh(dig)
        k == LowZeros(h)
    IN  IF h = <<>> THEN Zero
        ELSE [nan |-> FALSE, neg |-> neg, dig |-> SubSeq(h, k + 1, Len(h)),
              exp |-> exp + k, pi |-> p, G |-> g]

RECURSIVE DigitsOf(_)
DigitsOf(n) == IF n = 0 THEN <<>> ELSE <<n % 10>> \o DigitsOf(n \div 10)

\* The literal m * 10^e.
Lit(m, e) == Canon(m < 0, DigitsOf(IF m < 0 THEN -m ELSE m), e, 0, 0)

Rest(d) == IF d = <<>> THEN d ELSE Tail(d)

First(d) == IF d = <<>> THEN 0 ELSE Head(d)

RECURSIVE MagAdd(_, _, _)
MagAdd(a, b, c) ==
    IF a = <<>> /\ b = <<>> THEN (IF c = 0 THEN <<>> ELSE <<c>>)
    ELSE LET s == First(a) + First(b) + c
         IN  <<s % 10>> \o MagAdd(Rest(a), Rest(b), s \div 10)

\* a - b - c for a >= b + c.
RECURSIVE MagSub(_, _, _)
MagSub(a, b, c) ==
    IF a = <<>> THEN <<>>
    ELSE LET s == First(a) - First(b) - c
         IN  IF s < 0 THEN <<s + 10>> \o MagSub(Rest(a), Rest(b), 1)
             ELSE <<s>> \o MagSub(Rest(a), Rest(b), 0)

RECURSIVE MagLessFrom(_, _, _)
MagLessFrom(a, b, i) ==
    IF i = 0 THEN FALSE
    ELSE IF a[i] # b[i] THEN a[i] < b[i]
    ELSE MagLessFrom(a, b, i - 1)

\* a < b, for digit sequences without leading zeros.
MagLess(a, b) ==
    IF Len(a) # Len(b) THEN Len(a) < Len(b) ELSE MagLessFrom(a, b, Len(a))

RECURSIVE MagMulDigit(_, _, _)
MagMulDigit(a, d, c) ==
    IF a = <<>> THEN (IF c = 0 THEN <<>> ELSE <<c>>)
    ELSE LET s == Head(a) * d + c
         IN  <<s % 10>> \o MagMulDigit(Tail(a), d, s \div 10)

RECURSIVE MagMul(_, _)
MagMul(a, b) ==
    IF b = <<>> THEN <<>>
    ELSE MagAdd(MagMulDigit(a, Head(b), 0), <<0>> \o MagMul(a, Tail(b)), 0)

Shift(d, k) == [i \in 1..k |-> 0] \o d

NumNeg(x) == IF x.nan \/ x.dig = <<>> THEN x ELSE [x EXCEPT !.neg = ~x.neg]

\* x + y; the two are multiples of the same powers of pi and G unless one is 0.
NumAdd(x, y) ==
    IF x.nan \/ y.nan THEN NaN
    ELSE IF x.dig = <<>> THEN y
    ELSE IF y.dig = <<>> THEN x
    ELSE LET e == IF x.exp < y.exp THEN x.exp ELSE y.exp
             a == StripHigh(Shift(x.dig, x.exp - e))
             b == StripHigh(Shift(y.dig, y.exp - e))
         IN  IF x.neg = y.neg THEN Canon(x.neg, MagAdd(a, b, 0), e, x.pi, x.G)
             ELSE IF MagLess(a, b) THEN Canon(y.neg, MagSub(b, a, 0), e, x.pi, x.G)
             ELSE Canon(x.neg, MagSub(a, b, 0), e, x.pi, x.G)

NumSub(x, y) == NumAdd(x, NumNeg(y))

NumMul(x, y) ==
    IF x.nan \/ y.nan THEN NaN
    ELSE Canon(x.neg # y.neg, MagMul(x.dig, y.dig), x.exp + y.exp,
               x.pi + y.pi, x.G + y.G)

RECURSIVE NumPow(_, _)
NumPow(x, n) == IF n = 1 THEN x ELSE NumMul(x, NumPow(x, n - 1))

\* x < 0 (False for NaN, as in IEEE 754).
NumLess0(x) == ~x.nan /\ x.neg

(***************************************************************************)
(* Values: Python scalars and numpy arrays                                 *)
(***************************************************************************)

\* A Python float (tag "scalar") or a numpy array of 0 or 1 dimensions; data
\* holds the elements (one element when ndim = 0).  tag "exc": a raised
\* exception, data = <<its type>>.  tag "unbound": no object.
Scalar(x) == [tag |-> "scalar", ndim |-> 0, data |-> <<x>>]

NdArray(n, d) == [tag |-> "ndarray", ndim |-> n, data |-> d]

Raise(type) == [tag |-> "exc", ndim |-> 0, data |-> <<type>>]

Unbound == [tag |-> "unbound", ndim |-> 0, data |-> <<>>]

NoExc == [type |-> "", line |-> 0]

\* numpy broadcasting of two operands: a 0-d operand or a length-1 array
\* stretches to the other's length; other lengths must agree.
Broadcastable(a, b) ==
    \/ Len(a.data) = Len(b.data)
    \/ Len(a.data) = 1
    \/ Len(b.data) = 1

\* x op y on two floats.
Apply(op, x, y) ==
    CASE op = "+" -> NumAdd(x, y)
      [] op = "-" -> NumSub(x, y)
      [] op = "*" -> NumMul(x, y)

\* a op b, element-wise.
Map2(op, a, b) ==
    IF a.tag = "exc" THEN a
    ELSE IF b.tag = "exc" THEN b
    ELSE IF ~Broadcastable(a, b) THEN Raise("ValueError")
    ELSE LET n == IF Len(a.data) < Len(b.data) THEN Len(b.data) ELSE Len(a.data)
             at(v, i) == v.data[IF Len(v.data) = 1 THEN 1 ELSE i]
         IN  [tag |-> IF a.tag = "ndarray" \/ b.tag = "ndarray" THEN "ndarray" ELSE "scalar",
              ndim |-> IF a.ndim < b.ndim THEN b.ndim ELSE a.ndim,
              data |-> [i \in 1..n |-> Apply(op, at(a, i), at(b, i))]]

Add(a, b) == Map2("+", a, b)

Sub(a, b) == Map2("-", a, b)

Mul(a, b) == Map2("*", a, b)

Pow(a, n) == IF a.tag = "exc" THEN a ELSE [a EXCEPT !.data = [i \in 1..Len(a.data) |-> NumPow(a.data[i], n)]]

Float(m, e) == Scalar(Lit(m, e))

\* np.pi
np_pi == Scalar([nan |-> FALSE, neg |-> FALSE, dig |-> <<1>>, exp |-> 0, pi |-> 1, G |-> 0])

(***************************************************************************)
(* The right-hand sides of the statements that execute                     *)
(***************************************************************************)

\* oceans = np.array(topography < 0)
oceans(topography) ==
    NdArray(topography.ndim,
            [i \in 1..Len(topography.data) |-> NumLess0(topography.data[i])])

\* continent = oceans, the negation forgotten.
continent_not_negated(oc) == oc

\* continent = np.logical_not(oceans)
continent(oc) == [oc EXCEPT !.data = [i \in 1..Len(oc.data) |-> ~oc.data[i]]]

\* density = np.full(topography.shape, np.nan, dtype="float"); a Python float
\* has no attribute shape.
density(topography) ==
    IF topography.tag = "scalar" THEN Raise("AttributeError")
    ELSE NdArray(topography.ndim, [i \in 1..Len(topography.data) |-> NaN])

\* density_water - density_crust, the -1 forgotten.
ocean_density_unsigned(density_water, density_crust) ==
    Sub(density_water, density_crust)

\* -1 * (density_water - density_crust)
ocean_density(density_water, density_crust) ==
    Mul(Float(-1, 0), Sub(density_water, density_crust))

\* 2 * np.pi * GRAVITATIONAL_CONST * density * topography, in SI units
\* instead of mGal.
bouguer_si_units(dens, topography, G) ==
    Mul(Mul(Mul(Mul(Float(2, 0), np_pi), G), dens), topography)

\* bouguer = 1e5 * 2 * np.pi * GRAVITATIONAL_CONST * density * topography
bouguer(dens, topography, G) ==
    Mul(Mul(Mul(Mul(Mul(Float(1, 5), Float(2, 0)), np_pi), G), dens), topography)

\* atmos_correction = 0.874 - 9.9e-05 * topography, the quadratic term left
\* on a line of its own.
atmos_correction_split(topography) ==
    Sub(Float(874, -3), Mul(Float(99, -6), topography))

\* atmos_correction = 0.874 - 9.9e-05 * topography + 3.56e-09 * topography**2
atmos_correction(topography) ==
    Add(Sub(Float(874, -3), Mul(Float(99, -6), topography)),
        Mul(Float(356, -11), Pow(topography, 2)))

\* spher_cap_corr =  0.001464139 * topography - 3.533047e-07 * topography**2
spher_cap_corr(topography) ==
    Sub(Mul(Float(1464139, -9), topography),
        Mul(Float(3533047, -13), Pow(topography, 2)))

\* The next logical line, an expression statement of its own:
\* + 1.002709e-13 * topography**3 + 3.002407E-18 * topography**4
spher_cap_rest(topography) ==
    Add(Mul(Float(1002709, -19), Pow(topography, 3)),
        Mul(Float(3002407, -24), Pow(topography, 4)))

(***************************************************************************)
(* The source text: the logical lines of each def                          *)
(***************************************************************************)

Funcs ==
    <<"bouguer_correction", "atmospheric_correction",
      "spherical_bouguer_cap_correction", "free_air_correction",
      "eotvos_correction">>

\* A logical line: its number, its kind, the name it binds (or returns, or
\* indexes), the mask of an indexed assignment, its right-hand side, and its
\* first token (lead) and last token (trail).
Stmt(line, kind, target, mask, expr, lead, trail) ==
    [line |-> line, kind |-> kind, target |-> target, mask |-> mask,
     expr |-> expr, lead |-> lead, trail |-> trail]

Source(f) ==
    CASE f = "bouguer_correction" ->
           <<Stmt(67, "assign", "oceans", "", "oceans", "name", ")"),
             Stmt(68, "assign", "continent", "", "continent", "name", ")"),
             Stmt(69, "assign", "density", "", "density", "name", ")"),
             Stmt(70, "setitem", "density", "continent", "density_crust", "name", "name"),
             Stmt(74, "setitem", "density", "oceans", "ocean_density", "name", ")"),
             Stmt(75, "assign", "bouguer", "", "bouguer", "name", "name"),
             Stmt(76, "return", "bouguer", "", "", "return", "name")>>
      [] f = "atmospheric_correction" ->
           <<Stmt(103, "assign", "atmos_correction", "", "atmos_correction", "name", "number"),
             Stmt(105, "return", "atmos_correction", "", "", "return", "name")>>
      [] f = "spherical_bouguer_cap_correction" ->
           <<Stmt(136, "assign", "spher_cap_corr", "", "spher_cap_corr", "name", "number"),
             Stmt(137, "expr", "", "", "spher_cap_rest", "+", "number"),
             Stmt(139, "return", "spher_cap_corr", "", "", "return", "name")>>
      [] f = "free_air_correction" ->
           <<Stmt(174, "assign", "free_air_corr", "", "free_air_corr", "name", ")"),
             Stmt(175, "expr", "", "", "free_air_rest", "*", "number"),
             Stmt(177, "return", "free_air_corr", "", "", "return", "name")>>
      [] f = "eotvos_correction" ->
           <<Stmt(199, "assign", "eotvos_corr", "", "eotvos_corr", "name", "*"),
             Stmt(200, "expr", "", "", "eotvos_rest", "name", "number"),
             Stmt(202, "return", "eotvos_corr", "", "", "return", "name")>>

Params(f) ==
    CASE f = "bouguer_correction" -> <<"topography", "density_crust", "density_water">>
      [] f = "atmospheric_correction" -> <<"topography">>
      [] f = "spherical_bouguer_cap_correction" -> <<"topography">>
      [] f = "free_air_correction" -> <<"topography", "latitude">>
      [] f = "eotvos_correction" -> <<"latitude", "velocity", "azimuth">>

\* The defs of a text: all five for the file, one for a def by itself.
UnitDefs(u) == IF u = "module" THEN {Funcs[i] : i \in 1..Len(Funcs)} ELSE {u}

Lines(u) == UNION {{Source(f)[i] : i \in 1..Len(Source(f))} : f \in UnitDefs(u)}

MinOf(S) == CHOOSE x \in S : \A y \in S : x <= y

\* The parser: a logical line cannot end in a binary operator.
ParseErrors(u) == {s.line : s \in {t \in Lines(u) : t.trail \in {"*", "+", "-"}}}

\* The code generator: a statement cannot be a starred expression (a line
\* that opens with * parses as one).
CompileErrors(u) == {s.line : s \in {t \in Lines(u) : t.lead = "*"}}

\* What compiling a text raises: the parser reads the whole text before any
\* code is generated.
LoadResult(u) ==
    IF ParseErrors(u) # {} THEN [type |-> "SyntaxError", line |-> MinOf(ParseErrors(u))]
    ELSE IF CompileErrors(u) # {} THEN [type |-> "SyntaxError", line |-> MinOf(CompileErrors(u))]
    ELSE NoExc

(***************************************************************************)
(* Executing a def                                                         *)
(***************************************************************************)

Names ==
    {"topography", "latitude", "velocity", "azimuth", "density_crust",
     "density_water", "oceans", "continent", "density", "bouguer",
     "atmos_correction", "spher_cap_corr"}

\* A frame: heap of objects (arguments first), env from names to heap
\* positions (0: unbound), the global G, the exception raised, the returned
\* object's position (0: none yet).
IndexOf(n, seq) == IF \E i \in 1..Len(seq) : seq[i] = n
                   THEN CHOOSE i \in 1..Len(seq) : seq[i] = n ELSE 0

NewFrame(f, args, G) ==
    [heap |-> args,
     env |-> [n \in Names |-> IndexOf(n, Params(f))],
     G |-> G, exc |-> NoExc, ret |-> 0]

V(fr, n) == fr.heap[fr.env[n]]

\* The value of a right-hand side in a frame (of the defs that compile).
Eval(e, fr) ==
    CASE e = "oceans" -> oceans(V(fr, "topography"))
      [] e = "continent" -> continent(V(fr, "oceans"))
      [] e = "density" -> density(V(fr, "topography"))
      [] e = "density_crust" -> V(fr, "density_crust")
      [] e = "ocean_density" -> ocean_density(V(fr, "density_water"), V(fr, "density_crust"))
      [] e = "bouguer" -> bouguer(V(fr, "density"), V(fr, "topography"), fr.G)
      [] e = "atmos_correction" -> atmos_correction(V(fr, "topography"))
      [] e = "spher_cap_corr" -> spher_cap_corr(V(fr, "topography"))
      [] e = "spher_cap_rest" -> spher_cap_rest(V(fr, "topography"))

\* topography[mask] = v: the masked assignment lands in the caller's array.
MaskedAssign_on_topography(fr, target, mask, v) ==
    LET r == fr.env["topography"]
        m == V(fr, mask)
        old == fr.heap[r]
    IN  [fr EXCEPT !.heap[r].data =
             [i \in 1..Len(old.data) |-> IF m.data[i] THEN v.data[1] ELSE old.data[i]]]

\* target[mask] = v: the object target names is written in place where the
\* boolean mask is True.
MaskedAssign(fr, target, mask, v) ==
    LET r == fr.env[target]
        m == V(fr, mask)
        old == fr.heap[r]
    IN  [fr EXCEPT !.heap[r].data =
             [i \in 1..Len(old.data) |-> IF m.data[i] THEN v.data[1] ELSE old.data[i]]]

\* target = v: a new object, bound to the local name.
Assign(fr, target, v) ==
    [fr EXCEPT !.heap = Append(@, v), !.env[target] = Len(fr.heap) + 1]

Exec(s, fr) ==
    IF s.kind = "return" THEN [fr EXCEPT !.ret = fr.env[s.target]]
    ELSE LET v == Eval(s.expr, fr)
         IN  IF v.tag = "exc" THEN [fr EXCEPT !.exc = [type |-> v.data[1], line |-> s.line]]
             ELSE IF s.kind = "assign" THEN Assign(fr, s.target, v)
             ELSE IF s.kind = "setitem" THEN MaskedAssign(fr, s.target, s.mask, v)
             ELSE fr

RECURSIVE Run(_, _, _)
Run(stmts, i, fr) ==
    IF i > Len(stmts) \/ fr.exc # NoExc \/ fr.ret # 0 THEN fr
    ELSE Run(stmts, i + 1, Exec(stmts[i], fr))

\* f(*args) with global G: the frame at the end of the call.
Invoke(f, args, G) == Run(Source(f), 1, NewFrame(f, args, G))

(***************************************************************************)
(* The state machine                                                       *)
(***************************************************************************)

Units == {"module"} \cup UnitDefs("module")

\* Heights and depths in metres, angles in degrees, speeds in knots.
Heights == {-1000, -1, 0, 1, 1000}

Angles == {0, 90}

Velocities == {0, 10}

\* (density_crust, density_water): the defaults of line 14, the default crust
\* with fresher water, and a crust lighter than the water.
density_crust_default == 2670

density_water_default == 1040

Densities ==
    {<<density_crust_default, density_water_default>>,
     <<density_crust_default, 1000>>, <<1000, 1040>>}

IntArray(seq) == NdArray(1, [i \in 1..Len(seq) |-> Lit(seq[i], 0)])

\* The topographies a caller passes: arrays of 1..MaxLen heights, and plain
\* Python numbers.
Topographies ==
    {IntArray(seq) : seq \in UNION {[1..n -> Heights] : n \in 1..MaxLen}}
        \cup {Float(h, 0) : h \in Heights}

NoCall == [fn |-> "", dens |-> <<>>, raised |-> NoExc, value |-> Unbound, fresh |-> FALSE]

NoFrame == [n \in Names |-> Unbound]

\* The constant of harmonica/constants.py, kept symbolic: 1 * G.
G_value == Scalar([nan |-> FALSE, neg |-> FALSE, dig |-> <<1>>, exp |-> 0, pi |-> 0, G |-> 1])

Init ==
    /\ unit \in Units
    /\ pc = "start"
    /\ namespace = {}
    /\ loadError = NoExc
    /\ inputs \in [topography : Topographies,
                   latitude : {Float(a, 0) : a \in Angles},
                   velocity : {Float(v, 0) : v \in Velocities},
                   azimuth : {Float(a, 0) : a \in Angles}]
    /\ GRAVITATIONAL_CONST = G_value
    /\ last = NoCall
    /\ frame = NoFrame

\* The interpreter compiles the text and, if it compiles, runs its def
\* statements, which bind the names.
Load ==
    /\ pc = "start"
    /\ loadError' = LoadResult(unit)
    /\ pc' = IF LoadResult(unit) = NoExc THEN "loaded" ELSE "failed"
    /\ namespace' = IF LoadResult(unit) = NoExc THEN UnitDefs(unit) ELSE {}
    /\ UNCHANGED <<unit, inputs, GRAVITATIONAL_CONST, last, frame>>

ArgVal(n, dens) ==
    IF n = "density_crust" THEN Float(dens[1], 0)
    ELSE IF n = "density_water" THEN Float(dens[2], 0)
    ELSE inputs[n]

\* The caller uses f on its inputs.  When the text did not load, what the
\* caller gets is the load's exception; otherwise the def runs.
Call(f, dens) ==
    /\ pc # "start"
    /\ f \in UnitDefs(unit)
    /\ IF pc = "failed"
       THEN /\ last' = [fn |-> f, dens |-> dens, raised |-> loadError,
                        value |-> Unbound, fresh |-> FALSE]
            /\ frame' = NoFrame
            /\ UNCHANGED <<inputs, GRAVITATIONAL_CONST>>
       ELSE LET args == [i \in 1..Len(Params(f)) |-> ArgVal(Params(f)[i], dens)]
            IN  \E fr \in {Invoke(f, args, GRAVITATIONAL_CONST)} :
                /\ last' = [fn |-> f, dens |-> dens, raised |-> fr.exc,
                            value |-> IF fr.ret = 0 THEN Unbound ELSE fr.heap[fr.ret],
                            fresh |-> fr.ret > Len(args)]
                /\ inputs' = [n \in DOMAIN inputs |->
                                IF IndexOf(n, Params(f)) # 0
                                THEN fr.heap[IndexOf(n, Params(f))] ELSE inputs[n]]
                /\ GRAVITATIONAL_CONST' = fr.G
                /\ frame' = [n \in Names |->
                               IF fr.env[n] = 0 THEN Unbound ELSE fr.heap[fr.env[n]]]
    /\ UNCHANGED <<unit, pc, namespace, loadError>>

CallBouguer == \E dens \in Densities : Call("bouguer_correction", dens)

CallAtmospheric == Call("atmospheric_correction", <<>>)

CallSphericalCap == Call("spherical_bouguer_cap_correction", <<>>)

CallFreeAir == Call("free_air_correction", <<>>)

CallEotvos == Call("eotvos_correction", <<>>)

Next ==
    \/ Load
    \/ CallBouguer
    \/ CallAtmospheric
    \/ CallSphericalCap
    \/ CallFreeAir
    \/ CallEotvos

Spec == Init /\ [][Next]_vars

(***************************************************************************)
(* The documented formulas, element by element                             *)
(***************************************************************************)

Num(n) == Lit(n, 0)

Abs(x) == IF x.neg THEN NumNeg(x) ELSE x

\* 1e5 * 2 * pi * G
PlateFactor == NumMul(NumMul(Lit(2, 5), np_pi.data[1]), G_value.data[1])

\* sin and cos of the model's angles, in degrees.
SinDeg(x) == IF x = Num(90) THEN Num(1) ELSE Zero

CosDeg(x) == IF x = Num(0) THEN Num(1) ELSE Zero

\* 0.001464139 h - 3.533047e-07 h^2 + 1.002709e-13 h^3 + 3.002407e-18 h^4
Quartic(h) ==
    NumAdd(NumAdd(NumSub(NumMul(Lit(1464139, -9), h),
                         NumMul(Lit(3533047, -13), NumPow(h, 2))),
                  NumMul(Lit(1002709, -19), NumPow(h, 3))),
           NumMul(Lit(3002407, -24), NumPow(h, 4)))

\* -(0.3087691 - 0.0004398 sin^2(phi)) h + 7.2125e-08 h^2
FreeAir(h, phi) ==
    NumAdd(NumMul(NumNeg(NumSub(Lit(3087691, -7),
                                NumMul(Lit(4398, -7), NumPow(SinDeg(phi), 2)))), h),
           NumMul(Lit(72125, -12), NumPow(h, 2)))

\* 7.503 v sin(azimuth) cos(latitude) + 0.004154 v^2
Eotvos(lat, v, az) ==
    NumAdd(NumMul(NumMul(NumMul(Lit(7503, -3), v), SinDeg(az)), CosDeg(lat)),
           NumMul(Lit(4154, -6), NumPow(v, 2)))

\* 0.874 - 9.9e-05 h + 3.56e-09 h^2, in Horner form
Atmospheric(h) ==
    NumAdd(Lit(874, -3), NumMul(h, NumAdd(Lit(-99, -6), NumMul(Lit(356, -11), h))))

\* The inputs and the result of the last call, element i.
TopoAt(i) == inputs.topography.data[i]

ResultAt(i) == last.value.data[i]

Returned(f) == last.fn = f /\ last.raised = NoExc

Indices == 1..Len(inputs.topography.data)

IsArray(v) == v.tag = "ndarray"

(***************************************************************************)
(* Claims                                                                  *)
(***************************************************************************)

\* C1: for every topography h, spherical_bouguer_cap_correction(h) returns the
\* full quartic 0.001464139 h - 3.533047e-07 h^2 + 1.002709e-13 h^3 +
\* 3.002407e-18 h^4, all four terms contributing (e.g. at h = 1000).  Stated
\* of the def loaded by itself.
C1_FullQuartic ==
    (unit = "spherical_bouguer_cap_correction" /\ last.fn = unit) =>
        /\ last.raised = NoExc
        /\ \A i \in Indices : ResultAt(i) = Quartic(TopoAt(i))

\* C2: for every topography h and latitude phi, free_air_correction(h, phi)
\* returns -(0.3087691 - 0.0004398 sin^2(phi)) h + 7.2125e-08 h^2.  Stated of
\* the def loaded by itself.
C2_FreeAirFormula ==
    (unit = "free_air_correction" /\ last.fn = unit) =>
        /\ last.raised = NoExc
        /\ \A i \in Indices :
               ResultAt(i) = FreeAir(TopoAt(i), inputs.latitude.data[1])

\* C3: eotvos_correction(latitude, velocity, azimuth) returns
\* 7.503 velocity sin(azimuth) cos(latitude) + 0.004154 velocity^2, which is 0
\* at velocity = 0 for every latitude and azimuth.  Stated of the def loaded
\* by itself.
C3_EotvosFormula ==
    (unit = "eotvos_correction" /\ last.fn = unit) =>
        /\ last.raised = NoExc
        /\ ResultAt(1) = Eotvos(inputs.latitude.data[1], inputs.velocity.data[1],
                                inputs.azimuth.data[1])
        /\ inputs.velocity.data[1] = Zero => ResultAt(1) = Zero

\* C4: every element with topography h < 0 of a result of bouguer_correction
\* is 1e5 * 2 pi G * (density_water - density_crust) * |h|; with the default
\* densities that is -(1e5 * 2 pi G * 1630 * |h|).  By itself the def returns
\* for every array.
C4_OceanBouguer ==
    /\ (unit = "bouguer_correction" /\ last.fn = unit /\ IsArray(inputs.topography))
           => last.raised = NoExc
    /\ Returned("bouguer_correction") =>
           \A i \in Indices :
               TopoAt(i).neg =>
                   /\ ResultAt(i) =
                          NumMul(NumMul(PlateFactor,
                                        NumSub(Num(last.dens[2]), Num(last.dens[1]))),
                                 Abs(TopoAt(i)))
                   /\ last.dens = <<density_crust_default, density_water_default>> =>
                          ResultAt(i) =
                              NumNeg(NumMul(NumMul(PlateFactor, Num(1630)), Abs(TopoAt(i))))

C4_Witness ==
    /\ Returned("bouguer_correction")
    /\ last.dens = <<density_crust_default, density_water_default>>
    /\ \E i \in Indices : TopoAt(i) = Num(-1000) /\ ResultAt(i).neg /\ ResultAt(i).pi = 1

\* C5: every element with topography h >= 0 of a result of bouguer_correction
\* is 1e5 * 2 pi G * density_crust * h, whatever density_water is; so an
\* element with topography 0 yields 0 for any densities.
C5_LandBouguer ==
    Returned("bouguer_correction") =>
        \A i \in Indices :
            ~TopoAt(i).neg =>
                /\ ResultAt(i) =
                       NumMul(NumMul(PlateFactor, Num(last.dens[1])), TopoAt(i))
                /\ TopoAt(i) = Zero => ResultAt(i) = Zero

C5_Witness ==
    /\ Returned("bouguer_correction")
    /\ last.dens[2] # density_water_default
    /\ \E i, j \in Indices :
           /\ TopoAt(i) = Zero /\ ResultAt(i) = Zero
           /\ TopoAt(j) = Num(1000) /\ ResultAt(j) # Zero

\* C6: atmospheric_correction(h) returns 0.874 - 9.9e-05 h + 3.56e-09 h^2 for
\* every h, which is 0.874 exactly at h = 0.  By itself the def always returns.
C6_Atmospheric ==
    /\ (unit = "atmospheric_correction" /\ last.fn = unit) => last.raised = NoExc
    /\ Returned("atmospheric_correction") =>
           \A i \in Indices :
               /\ ResultAt(i) = Atmospheric(TopoAt(i))
               /\ TopoAt(i) = Zero => ResultAt(i) = Lit(874, -3)

C6_Witness ==
    /\ Returned("atmospheric_correction")
    /\ \E i, j \in Indices :
           /\ TopoAt(i) = Zero /\ ResultAt(i) = Lit(874, -3)
           /\ TopoAt(j) = Num(1000) /\ ResultAt(j) = Lit(77856, -5)

\* C7: each of the five corrections is independently callable: loading the
\* module binds all five, and a call of one whose own lines compile is not
\* failed by the lines of another.
C7_IndependentlyCallable ==
    /\ (unit = "module" /\ pc # "start") =>
           pc = "loaded" /\ namespace = UnitDefs("module")
    /\ (unit = "module" /\ last.fn # "" /\ LoadResult(last.fn) = NoExc) =>
           last.raised.type # "SyntaxError"

\* Every pair of arguments of the last call broadcasts.
ArgsBroadcastable ==
    \A m, n \in {x \in DOMAIN inputs : IndexOf(x, Params(last.fn)) # 0} :
        Broadcastable(inputs[m], inputs[n])

\* C8: no correction raises on same-shaped arrays or scalars broadcastable to
\* that shape; the only error is a dimension mismatch (numpy's ValueError) on
\* incompatible shapes; bouguer_correction on a plain scalar returns a value.
\* Stated of the defs that load by themselves.
C8_NoErrorOnBroadcastable ==
    (last.fn # "" /\ unit = last.fn /\ pc = "loaded") =>
        /\ ArgsBroadcastable => last.raised = NoExc
        /\ last.raised # NoExc => last.raised.type = "ValueError"

SameShape(a, b) == a.tag = b.tag /\ a.ndim = b.ndim /\ Len(a.data) = Len(b.data)

\* C9: no call has a side effect: it leaves the caller's topography,
\* latitude, velocity and azimuth and GRAVITATIONAL_CONST as they were; a
\* result is a new object of the shape of the topography; and the same call
\* again gives the same outcome.
C9_NoSideEffects ==
    [][/\ inputs' = inputs
       /\ GRAVITATIONAL_CONST' = GRAVITATIONAL_CONST
       /\ (last'.fn # "" /\ last'.raised = NoExc) =>
              last'.fresh /\ SameShape(last'.value, inputs.topography)
       /\ (last'.fn = last.fn /\ last'.dens = last.dens) =>
              (last'.raised = last.raised /\ last'.value = last.value)]_vars

C9_Witness ==
    /\ Returned("bouguer_correction")
    /\ last.fresh
    /\ Len(last.value.data) = 2
    /\ frame.density.tag = "ndarray"
    /\ inputs.topography # frame.density
    /\ GRAVITATIONAL_CONST = G_value

\* C10: in bouguer_correction every element is in exactly one of the masks
\* oceans (topography < 0) and continent, so no element of density keeps its
\* NaN placeholder, and each element of the result is decided by the
\* topography at the same index alone.
C10_MasksPartition ==
    /\ (last.fn = "bouguer_correction" /\ frame.continent.tag = "ndarray") =>
           \A i \in Indices :
               /\ frame.oceans.data[i] = TopoAt(i).neg
               /\ frame.oceans.data[i] # frame.continent.data[i]
    /\ Returned("bouguer_correction") =>
           \A i \in Indices :
               /\ ~frame.density.data[i].nan
               /\ ~ResultAt(i).nan
               /\ ResultAt(i) =
                      NumMul(NumMul(PlateFactor,
                                    IF TopoAt(i).neg
                                    THEN NumSub(Num(last.dens[1]), Num(last.dens[2]))
                                    ELSE Num(last.dens[1])),
                             TopoAt(i))

C10_Witness ==
    /\ Returned("bouguer_correction")
    /\ \E i, j \in Indices :
           /\ frame.oceans.data[i] /\ ~frame.continent.data[i]
           /\ ~frame.oceans.data[j] /\ frame.continent.data[j]
           /\ TopoAt(j) = Zero
           /\ ~frame.density.data[i].nan /\ ~frame.density.data[j].nan

====
